---- MODULE Spec2Model ----
(***************************************************************************)
(* Model of the log preprocessor of devops-error-analyzer                  *)
(* (src/src/preprocessor.py): LogPreprocessor.extract_error_sections, the  *)
(* extractor, and LogPreprocessor.extract_error_patterns, the summarizer.  *)
(*                                                                         *)
(* Text is modelled character by character: a Python str is a sequence of  *)
(* one-character strings, so that lower(), the `in` substring test and the *)
(* regular expressions are computed, not assumed.                          *)
(***************************************************************************)
EXTENDS Integers, Sequences, FiniteSets, TLC

VARIABLES
  log_file,            \* the decoded lines of the file on disk, in order
  file_exists,         \* Path(log_file_path).exists()
  file_size,           \* Path(log_file_path).stat().st_size, in bytes
  context_lines,       \* self.context_lines
  max_errors,          \* self.max_errors
  pc,                  \* position inside extract_error_sections
  open_files,          \* number of file handles currently open
  line_count,          \* local line_count of the first pass
  lines,               \* local lines = file.readlines()
  error_line_indices,  \* local set of zero-based matching line indices
  todo,                \* what is left of sorted(error_line_indices)
  processed_indices,   \* local set of indices covered by emitted sections
  extracted_sections,  \* local list of sections, each the list of its lines
  section_bounds,      \* (start_idx, end_idx, i) of each appended section
  outcome,             \* "running", "returned" or "raised"
  exception,           \* the exception raised to the caller, or "none"
  result,              \* the returned string, as a sequence of chunks
  text,                \* log_text given to extract_error_patterns
  ppc,                 \* position inside extract_error_patterns
  error_stats,         \* the error_stats dictionary
  error_lines,         \* what is left of re.findall(error_line_pattern, ...)
  simplified_errors,   \* insertion-ordered dict, as a sequence of <<key, n>>
  error_text,          \* error_text given to classify_error
  cpc,                 \* position inside classify_error
  categories,          \* local list of the categories found so far
  cat_idx,             \* the category the outer loop is at (one-based)
  pat_idx,             \* the pattern the inner loop is at (one-based)
  classified           \* the list classify_error returns

evars == << log_file, file_exists, file_size, context_lines, max_errors, pc,
            open_files, line_count, lines, error_line_indices, todo,
            processed_indices, extracted_sections, section_bounds, outcome,
            exception, result >>
pvars == << text, ppc, error_stats, error_lines, simplified_errors >>
cvars == << error_text, cpc, categories, cat_idx, pat_idx, classified >>
vars == << log_file, file_exists, file_size, context_lines, max_errors, pc,
           open_files, line_count, lines, error_line_indices, todo,
           processed_indices, extracted_sections, section_bounds, outcome,
           exception, result, text, ppc, error_stats, error_lines, simplified_errors,
           error_text, cpc, categories, cat_idx, pat_idx, classified >>

(***************************************************************************)
(* Python str operations                                                   *)
(***************************************************************************)
Max(a, b) == IF a >= b THEN a ELSE b
Min(a, b) == IF a <= b THEN a ELSE b

UpperCase == {"A","B","C","D","E","F","G","H","I","J","K","L","M",
              "N","O","P","Q","R","S","T","U","V","W","X","Y","Z"}
LowerCase == {"a","b","c","d","e","f","g","h","i","j","k","l","m",
              "n","o","p","q","r","s","t","u","v","w","x","y","z"}
Digits == {"0","1","2","3","4","5","6","7","8","9"}

\* the lower-case letter of every upper-case ASCII letter
LowerOf ==
  ("A" :> "a") @@ ("B" :> "b") @@ ("C" :> "c") @@ ("D" :> "d") @@ ("E" :> "e") @@ ("F" :> "f")
  @@ ("G" :> "g") @@ ("H" :> "h") @@ ("I" :> "i") @@ ("J" :> "j") @@ ("K" :> "k") @@ ("L" :> "l")
  @@ ("M" :> "m") @@ ("N" :> "n") @@ ("O" :> "o") @@ ("P" :> "p") @@ ("Q" :> "q") @@ ("R" :> "r")
  @@ ("S" :> "s") @@ ("T" :> "t") @@ ("U" :> "u") @@ ("V" :> "v") @@ ("W" :> "w") @@ ("X" :> "x")
  @@ ("Y" :> "y") @@ ("Z" :> "z")

\* str.lower() of one character (every character but A-Z is kept)
LowerChar(c) == IF c \in UpperCase THEN LowerOf[c] ELSE c

\* str.lower()
Lower(s) == [k \in 1..Len(s) |-> LowerChar(s[k])]

\* does sub occur in s starting at (one-based) position p
StartsAt(s, sub, p) ==
  /\ p + Len(sub) - 1 <= Len(s)
  /\ \A k \in 1..Len(sub) : s[p + k - 1] = sub[k]

\* the Python test `sub in s`
Contains(s, sub) == \E p \in 1..(Len(s) - Len(sub) + 1) : StartsAt(s, sub, p)

\* "".join(list of strings); the list is halved so that the evaluation stays
\* shallow on long files
RECURSIVE Concat(_)
Concat(ss) ==
  IF ss = <<>> THEN <<>>
  ELSE IF Len(ss) = 1 THEN ss[1]
  ELSE LET half == Len(ss) \div 2
       IN  Concat(SubSeq(ss, 1, half)) \o Concat(SubSeq(ss, half + 1, Len(ss)))

\* the least element of a non-empty set of integers
Least(S) == CHOOSE k \in S : \A j \in S : k <= j

\* sorted(set of integers)
RECURSIVE SortedSeq(_)
SortedSeq(S) ==
  IF S = {} THEN <<>>
  ELSE LET m == Least(S)
       IN  <<m>> \o SortedSeq(S \ {m})

(***************************************************************************)
(* LogPreprocessor.ERROR_KEYWORDS                                          *)
(***************************************************************************)
ERROR_KEYWORDS ==
  << <<"e","r","r","o","r">>,
     <<"e","x","c","e","p","t","i","o","n">>,
     <<"f","a","i","l","u","r","e">>,
     <<"f","a","i","l">>,
     <<"f","a","i","l","e","d">>,
     <<"c","r","i","t","i","c","a","l">>,
     <<"s","e","v","e","r","e">>,
     <<"f","a","t","a","l">>,
     <<"c","r","a","s","h">>,
     <<"c","r","a","s","h","e","d">>,
     <<"a","b","o","r","t">>,
     <<"a","b","o","r","t","e","d">>,
     <<"d","e","n","i","e","d">>,
     <<"d","e","n","i","e","d">>,
     <<"r","e","j","e","c","t">>,
     <<"r","e","j","e","c","t","e","d">>,
     <<"t","i","m","e","o","u","t">>,
     <<"t","i","m","e","d"," ","o","u","t">>,
     <<"i","n","v","a","l","i","d">>,
     <<"i","n","c","o","r","r","e","c","t">>,
     <<"w","a","r","n","i","n","g">>,
     <<"a","l","e","r","t">>,
     <<"e","m","e","r","g","e","n","c","y">>,
     <<"p","a","n","i","c">>,
     <<"u","n","e","x","p","e","c","t","e","d">>,
     <<"u","n","a","b","l","e">>,
     <<"c","a","n","n","o","t">>,
     <<"n","o","t"," ","f","o","u","n","d">>,
     <<"f","o","r","b","i","d","d","e","n">>,
     <<"p","r","o","h","i","b","i","t","e","d">>,
     <<"u","n","a","u","t","h","o","r","i","z","e","d">>,
     <<"a","c","c","e","s","s"," ","d","e","n","i","e","d">>,
     <<"p","e","r","m","i","s","s","i","o","n"," ","d","e","n","i","e","d">>,
     <<"i","n","s","u","f","f","i","c","i","e","n","t">>,
     <<"m","i","s","s","i","n","g">>,
     <<"b","a","d"," ","r","e","q","u","e","s","t">>,
     <<"o","u","t"," ","o","f"," ","m","e","m","o","r","y">>,
     <<"O","O","M">>,
     <<"k","i","l","l","e","d">>,
     <<"s","e","g","f","a","u","l","t">>,
     <<"n","u","l","l"," ","p","o","i","n","t","e","r">>,
     <<"u","n","e","x","p","e","c","t","e","d"," ","E","O","F">>,
     <<"c","o","r","r","u","p","t">>,
     <<"d","e","a","d","l","o","c","k">>,
     <<"r","a","c","e"," ","c","o","n","d","i","t","i","o","n">>,
     <<"l","e","a","k","e","d">>,
     <<"o","v","e","r","f","l","o","w">>,
     <<"u","n","d","e","r","f","l","o","w">>,
     <<"e","x","c","e","e","d">>,
     <<"t","o","o"," ","m","a","n","y">>,
     <<"t","o","o"," ","f","e","w">>,
     <<"t","o","o"," ","l","a","r","g","e">>,
     <<"t","o","o"," ","s","m","a","l","l">> >>

\* the test of line 94 on one line: any(keyword in line_lower for keyword in ...)
IsErrorLine(line) ==
  LET line_lower == Lower(line)
  IN  \E k \in 1..Len(ERROR_KEYWORDS) : Contains(line_lower, ERROR_KEYWORDS[k])

\* the loop of lines 91-95: the zero-based indices of the matching lines
FindErrorLines(ls) == {i \in 0..(Len(ls) - 1) : IsErrorLine(ls[i + 1])}

(***************************************************************************)
(* Bounds of the model and the inputs drawn within them                    *)
(***************************************************************************)
MaxLines == 9       \* longest enumerated file, in lines
MaxMatches == 3     \* most keyword-bearing lines in an enumerated file
MaxRadius == 2      \* largest context_lines
MaxCap == 2         \* largest max_errors
MaxOver == 1        \* how far a long file exceeds the head sample

\* lines without any keyword; a file cycles through them so that order shows
PlainLines ==
  << <<"o","k","\n">>, <<"d","o","n","e","\n">>, <<"p","u","l","l","\n">> >>

\* lines that contain a vocabulary entry when case is ignored
KeywordLines ==
  << <<"E","r","r","o","r",":"," ","d","i","s","k","\n">>,
     <<"O","O","M","\n">>,
     <<"u","n","e","x","p","e","c","t","e","d"," ","E","O","F","\n">> >>

\* the file of n lines whose lines at the indices of S bear a keyword: the
\* lowest of them is the keyword line kw, the others the first keyword line
MakeFile(n, S, kw) ==
  [k \in 1..n |->
     IF (k - 1) \in S
       THEN IF \A j \in S : k - 1 <= j THEN KeywordLines[kw]
            ELSE KeywordLines[1]
       ELSE PlainLines[((k - 1) % Len(PlainLines)) + 1]]

\* min(100, len(lines)) of line 135
SAMPLE_LINES == 100

\* the sets of keyword-bearing indices of a file of n lines
MatchSets(n, most) == {T \in SUBSET (0..(n - 1)) : Cardinality(T) <= most}

ShortFiles ==
  { MakeFile(n, S, 1) : n \in 0..MaxLines, S \in MatchSets(MaxLines, MaxMatches) }
  \cup
  { MakeFile(n, S, kw) :
      n \in 0..MaxLines, kw \in 2..Len(KeywordLines),
      S \in MatchSets(MaxLines, MaxMatches - 1) }

LongFiles ==
  { MakeFile(n, S, 1) :
      n \in (SAMPLE_LINES - 1)..(SAMPLE_LINES + MaxOver),
      S \in {{}, {SAMPLE_LINES}} }

\* st_size values on both sides of the gate of line 80
FileSizes == {209715, 209716}

(***************************************************************************)
(* Literals of extract_error_sections                                      *)
(***************************************************************************)
\* "\n\n" + "="*40 + " ERROR SECTION " + "="*40 (line 128)
BANNER ==
  <<"\n","\n">> \o [k \in 1..40 |-> "="]
    \o <<" ","E","R","R","O","R"," ","S","E","C","T","I","O","N"," ">>
    \o [k \in 1..40 |-> "="]

\* the separator "\n\n" of the join of line 128
SEPARATOR == <<"\n","\n">>

\* "\n\n[...log file continues...]" (line 137)
CONTINUATION ==
  <<"\n","\n","[",".",".",".","l","o","g"," ","f","i","l","e"," ",
    "c","o","n","t","i","n","u","e","s",".",".",".","]">>

\* sep.join(list of strings)
Join(sep, ss) ==
  Concat([k \in 1..(2 * Len(ss) - 1) |-> IF k % 2 = 1 THEN ss[(k + 1) \div 2] ELSE sep])

\* a gate that takes 0.2 for KiB instead of MiB
IsSmallFile_KiB(size) == size * 10 < 2 * 1024

\* file_size_mb < 0.2 with file_size_mb = file_size / (1024 * 1024)
IsSmallFile(size) == size * 10 < 2 * (1024 * 1024)

\* a start index that leaves out the farthest line of context before the match
StartIdx_OffByOne(i, radius) == Max(0, i - radius + 1)

\* an end index one line short, as of a slice bound taken for inclusive
EndIdx_Short(i, radius, n) == Min(n - 1, i + radius) - 1

\* start_idx and end_idx of lines 110-111
StartIdx(i, radius) == Max(0, i - radius)
EndIdx(i, radius, n) == Min(n - 1, i + radius)

\* lines[start_idx:end_idx + 1] joined (line 118)
Section(ls, start_idx, end_idx) == Concat(SubSeq(ls, start_idx + 1, end_idx + 1))

\* the value returned at line 130
Consolidated(sections) == BANNER \o Join(SEPARATOR, sections)

\* a cap test that lets one section too many through
CapReached_OffByOne(n, cap) == n > cap

\* len(extracted_sections) >= self.max_errors (line 122)
CapReached(n, cap) == n >= cap

\* a head sample that forgets the limit of 100 lines
HeadSample_Unlimited(ls) == Concat(ls) \o CONTINUATION

\* the value returned at line 137
HeadSample(ls) ==
  Concat(SubSeq(ls, 1, Min(SAMPLE_LINES, Len(ls)))) \o CONTINUATION

(***************************************************************************)
(* extract_error_sections, one action per step of the method               *)
(***************************************************************************)
\* the summarizer is not running while the extractor runs
PatternsIdle ==
  /\ text = <<>>
  /\ ppc = "idle"
  /\ error_stats = [common_errors |-> <<>>, error_count |-> 0,
                    warning_count |-> 0, exception_types |-> <<>>,
                    error_codes |-> <<>>]
  /\ error_lines = <<>>
  /\ simplified_errors = <<>>

\* the classifier is not running while the extractor or the summarizer runs
ClassifierIdle ==
  /\ error_text = <<>>
  /\ cpc = "idle"
  /\ categories = <<>>
  /\ cat_idx = 0
  /\ pat_idx = 0
  /\ classified = <<>>

\* the locals before the method has assigned them
LocalsInit ==
  /\ pc = "start"
  /\ open_files = 0
  /\ line_count = 0
  /\ lines = <<>>
  /\ error_line_indices = {}
  /\ todo = <<>>
  /\ processed_indices = {}
  /\ extracted_sections = <<>>
  /\ section_bounds = <<>>
  /\ outcome = "running"
  /\ exception = "none"
  /\ result = <<>>

Init ==
  /\ \/ /\ file_exists = TRUE
        /\ log_file \in ShortFiles \cup LongFiles
        /\ file_size \in FileSizes
     \/ /\ file_exists = FALSE
        /\ log_file = <<>>
        /\ file_size = 0
  /\ context_lines \in 0..MaxRadius
  /\ max_errors \in 1..MaxCap
  /\ LocalsInit
  /\ PatternsIdle
  /\ ClassifierIdle

inputs == << log_file, file_exists, file_size, context_lines, max_errors >>

\* lines 60-61: the path does not exist
RaiseNotFound ==
  /\ pc = "start"
  /\ ~file_exists
  /\ outcome' = "raised"
  /\ exception' = "FileNotFoundError"
  /\ pc' = "done"
  /\ UNCHANGED << inputs, open_files, line_count, lines, error_line_indices,
                  todo, processed_indices, extracted_sections, section_bounds,
                  result, pvars, cvars >>

\* lines 63-70: stat() and the empty locals
StatFile ==
  /\ pc = "start"
  /\ file_exists
  /\ pc' = "count_open"
  /\ UNCHANGED << inputs, open_files, line_count, lines, error_line_indices,
                  todo, processed_indices, extracted_sections, section_bounds,
                  outcome, result, exception,
                  pvars, cvars >>

\* line 73: open() of the first pass
OpenForCount ==
  /\ pc = "count_open"
  /\ open_files' = open_files + 1
  /\ pc' = "count"
  /\ UNCHANGED << inputs, line_count, lines, error_line_indices, todo,
                  processed_indices, extracted_sections, section_bounds,
                  outcome, result, exception,
                  pvars, cvars >>

\* lines 74-75 and the end of the with block
CountLines ==
  /\ pc = "count"
  /\ line_count' = Len(log_file)
  /\ open_files' = open_files - 1
  /\ pc' = "gate"
  /\ UNCHANGED << inputs, lines, error_line_indices, todo, processed_indices,
                  extracted_sections, section_bounds, outcome, result, exception,
                  pvars, cvars >>

\* lines 80-82: the file is small, open() it again
OpenSmall ==
  /\ pc = "gate"
  /\ IsSmallFile(file_size)
  /\ open_files' = open_files + 1
  /\ pc' = "small_read"
  /\ UNCHANGED << inputs, line_count, lines, error_line_indices, todo,
                  processed_indices, extracted_sections, section_bounds,
                  outcome, result, exception,
                  pvars, cvars >>

\* line 83: return file.read()
ReturnWhole ==
  /\ pc = "small_read"
  /\ result' = Concat(log_file)
  /\ open_files' = open_files - 1
  /\ outcome' = "returned"
  /\ pc' = "done"
  /\ UNCHANGED << inputs, line_count, lines, error_line_indices, todo,
                  processed_indices, extracted_sections, section_bounds, exception,
                  pvars, cvars >>

\* line 86: the file is not small, open() it again
OpenLarge ==
  /\ pc = "gate"
  /\ ~IsSmallFile(file_size)
  /\ open_files' = open_files + 1
  /\ pc' = "readlines"
  /\ UNCHANGED << inputs, line_count, lines, error_line_indices, todo,
                  processed_indices, extracted_sections, section_bounds,
                  outcome, result, exception,
                  pvars, cvars >>

\* line 88: lines = file.readlines(), and the end of the with block
ReadLines ==
  /\ pc = "readlines"
  /\ lines' = log_file
  /\ open_files' = open_files - 1
  /\ pc' = "scan"
  /\ UNCHANGED << inputs, line_count, error_line_indices, todo,
                  processed_indices, extracted_sections, section_bounds,
                  outcome, result, exception,
                  pvars, cvars >>

\* lines 91-104: the keyword scan, then sorted(error_line_indices)
ScanLines ==
  /\ pc = "scan"
  /\ error_line_indices' = FindErrorLines(lines)
  /\ todo' = SortedSeq(error_line_indices')
  /\ pc' = "loop"
  /\ UNCHANGED << inputs, open_files, line_count, lines, processed_indices,
                  extracted_sections, section_bounds, outcome, result, exception,
                  pvars, cvars >>

\* lines 106-107: the index is already part of a section
SkipProcessed ==
  /\ pc = "loop"
  /\ todo # <<>>
  /\ Head(todo) \in processed_indices
  /\ todo' = Tail(todo)
  /\ UNCHANGED << inputs, pc, open_files, line_count, lines,
                  error_line_indices, processed_indices, extracted_sections,
                  section_bounds, outcome, result, exception,
                  pvars, cvars >>

\* lines 110-124: a section around the index, and the cap
EmitSection ==
  /\ pc = "loop"
  /\ todo # <<>>
  /\ Head(todo) \notin processed_indices
  /\ LET i == Head(todo)
         start_idx == StartIdx(i, context_lines)
         end_idx == EndIdx(i, context_lines, Len(lines))
     IN  /\ processed_indices' = processed_indices \cup (start_idx..end_idx)
         /\ extracted_sections' =
              Append(extracted_sections, Section(lines, start_idx, end_idx))
         /\ section_bounds' = Append(section_bounds, <<start_idx, end_idx, i>>)
  /\ IF CapReached(Len(extracted_sections'), max_errors)
       THEN pc' = "join" /\ todo' = todo
       ELSE pc' = pc /\ todo' = Tail(todo)
  /\ UNCHANGED << inputs, open_files, line_count, lines, error_line_indices,
                  outcome, result, exception,
                  pvars, cvars >>

\* line 104: the sorted indices are exhausted
LoopExit ==
  /\ pc = "loop"
  /\ todo = <<>>
  /\ pc' = "join"
  /\ UNCHANGED << inputs, open_files, line_count, lines, error_line_indices,
                  todo, processed_indices, extracted_sections, section_bounds,
                  outcome, result, exception,
                  pvars, cvars >>

\* lines 127-130: the sections under the banner
ReturnSections ==
  /\ pc = "join"
  /\ extracted_sections # <<>>
  /\ result' = Consolidated(extracted_sections)
  /\ outcome' = "returned"
  /\ pc' = "done"
  /\ UNCHANGED << inputs, open_files, line_count, lines, error_line_indices,
                  todo, processed_indices, extracted_sections, section_bounds,
                  exception,
                  pvars, cvars >>

\* lines 131-137: no section, the head of the file and the marker
ReturnSample ==
  /\ pc = "join"
  /\ extracted_sections = <<>>
  /\ result' = HeadSample(lines)
  /\ outcome' = "returned"
  /\ pc' = "done"
  /\ UNCHANGED << inputs, open_files, line_count, lines, error_line_indices,
                  todo, processed_indices, extracted_sections, section_bounds,
                  exception,
                  pvars, cvars >>

\* an OSError of open() (lines 73, 82, 86): no handle was opened;
\* lines 139-141 log it and raise it again
OpenFails ==
  /\ pc \in {"count_open", "gate"}
  /\ outcome' = "raised"
  /\ exception' = "OSError"
  /\ pc' = "done"
  /\ UNCHANGED << inputs, open_files, line_count, lines, error_line_indices,
                  todo, processed_indices, extracted_sections, section_bounds,
                  result, pvars, cvars >>

\* a read that fails with the handle left open, as of an open() without with
ReadFails_NoWith ==
  /\ pc \in {"count", "small_read", "readlines"}
  /\ outcome' = "raised"
  /\ exception' = "OSError"
  /\ pc' = "done"
  /\ UNCHANGED << inputs, open_files, line_count, lines, error_line_indices,
                  todo, processed_indices, extracted_sections, section_bounds,
                  result, pvars, cvars >>

\* an OSError while reading inside a with block (lines 74, 83, 88): the
\* block closes the handle, lines 139-141 log the error and raise it again
ReadFails ==
  /\ pc \in {"count", "small_read", "readlines"}
  /\ open_files' = open_files - 1
  /\ outcome' = "raised"
  /\ exception' = "OSError"
  /\ pc' = "done"
  /\ UNCHANGED << inputs, line_count, lines, error_line_indices, todo,
                  processed_indices, extracted_sections, section_bounds,
                  result, pvars, cvars >>

Next ==
  \/ RaiseNotFound
  \/ StatFile
  \/ OpenForCount
  \/ CountLines
  \/ OpenSmall
  \/ ReturnWhole
  \/ OpenLarge
  \/ ReadLines
  \/ ScanLines
  \/ SkipProcessed
  \/ EmitSection
  \/ LoopExit
  \/ ReturnSections
  \/ ReturnSample
  \/ OpenFails
  \/ ReadFails

Spec == Init /\ [][Next]_vars

(***************************************************************************)
(* Regular expressions of extract_error_patterns, computed on characters   *)
(***************************************************************************)
\* the character classes of the patterns: [A-Za-z], \d, \w and \s (ASCII)
Alpha == UpperCase \cup LowerCase
WordChars == Alpha \cup Digits \cup {"_"}
Spaces == {" ", "\t", "\n", "\r"}
\* [0-9a-f] and [-0-9a-f]
Hex == Digits \cup {"a", "b", "c", "d", "e", "f"}
HexOrDash == Hex \cup {"-"}

\* the length of the longest run, from position p, of characters of cls
RunLength(s, p, cls) ==
  LET stops == {k \in p..Len(s) : s[k] \notin cls}
  IN  IF p > Len(s) THEN 0
      ELSE IF stops = {} THEN Len(s) - p + 1
      ELSE Least(stops) - p

\* the length of the longest run, from position p, of characters other than c
RunLengthExcept(s, p, c) ==
  LET stops == {k \in p..Len(s) : s[k] = c}
  IN  IF p > Len(s) THEN 0
      ELSE IF stops = {} THEN Len(s) - p + 1
      ELSE Least(stops) - p

\* [A-Za-z]+<suffix>: matched greedily from p: the length of the letters
\* before the suffix, or 0 when there is no match
GreedyNameBefore(s, p, suffix) ==
  LET run == RunLength(s, p, Alpha)
      ks == {k \in 1..run : StartsAt(s, suffix, p + k)}
  IN  IF ks = {} THEN 0 ELSE CHOOSE k \in ks : \A j \in ks : j <= k

EXCEPTION_COLON == <<"E","x","c","e","p","t","i","o","n",":">>
ERROR_COLON == <<"E","r","r","o","r",":">>

\* ([A-Za-z]+Exception|[A-Za-z]+Error): at position p (line 191): the length
\* of the captured group, or 0; the first alternative is tried first
ExceptionGroupAt(s, p) ==
  LET a == GreedyNameBefore(s, p, EXCEPTION_COLON)
      b == GreedyNameBefore(s, p, ERROR_COLON)
  IN  IF a > 0 THEN a + Len(EXCEPTION_COLON) - 1
      ELSE IF b > 0 THEN b + Len(ERROR_COLON) - 1
      ELSE 0

\* the groups of the matches that start in starts, at or after p, left to
\* right, each search going on behind the colon of the match before
RECURSIVE PickExceptions(_, _, _)
PickExceptions(s, starts, p) ==
  LET left == {q \in starts : q >= p}
  IN  IF left = {} THEN <<>>
      ELSE LET q == Least(left)
               g == ExceptionGroupAt(s, q)
           IN  <<SubSeq(s, q, q + g - 1)>> \o PickExceptions(s, starts, q + g + 1)

\* re.findall(exception_pattern, log_text) from position p (line 192)
FindExceptions(s, p) ==
  PickExceptions(s, {q \in p..Len(s) : ExceptionGroupAt(s, q) > 0}, p)

WORD_ERROR == <<"e","r","r","o","r">>
WORD_CODE == <<"c","o","d","e">>
WORD_WARNING == <<"w","a","r","n","i","n","g">>
WORD_EXCEPTION == <<"e","x","c","e","p","t","i","o","n">>
WORD_FAIL == <<"f","a","i","l">>

\* [\s:=] and, under re.IGNORECASE, [A-Z0-9_\-]
CodeSeparators == Spaces \cup {":", "="}
CodeChars == Alpha \cup Digits \cup {"_", "-"}

\* does the lower-case word occur in s at position p, the case of s ignored
StartsAtIgnoringCase(s, word, p) ==
  /\ p + Len(word) - 1 <= Len(s)
  /\ \A k \in 1..Len(word) : LowerChar(s[p + k - 1]) = word[k]

\* (?:error|code)[\s:=]+([A-Z0-9_\-]+) with re.IGNORECASE at position p
\* (line 200): <<start of the group, length of the group>>, or <<0, 0>>
ErrorCodeAt(s, p) ==
  LET w == IF StartsAtIgnoringCase(s, WORD_ERROR, p) THEN Len(WORD_ERROR)
           ELSE IF StartsAtIgnoringCase(s, WORD_CODE, p) THEN Len(WORD_CODE)
           ELSE 0
      seps == RunLength(s, p + w, CodeSeparators)
      code == RunLength(s, p + w + seps, CodeChars)
  IN  IF w > 0 /\ seps > 0 /\ code > 0 THEN <<p + w + seps, code>> ELSE <<0, 0>>

\* the groups of the matches that start in starts, at or after p, left to
\* right, each search going on behind the match before
RECURSIVE PickErrorCodes(_, _, _)
PickErrorCodes(s, starts, p) ==
  LET left == {q \in starts : q >= p}
  IN  IF left = {} THEN <<>>
      ELSE LET m == ErrorCodeAt(s, Least(left))
           IN  <<SubSeq(s, m[1], m[1] + m[2] - 1)>>
                 \o PickErrorCodes(s, starts, m[1] + m[2])

\* re.findall(error_code_pattern, log_text, re.IGNORECASE) from position p
FindErrorCodes(s, p) ==
  PickErrorCodes(s, {q \in p..Len(s) : ErrorCodeAt(s, q)[2] > 0}, p)

\* the occurrences among starts, at or after p, that do not overlap
RECURSIVE CountFrom(_, _, _)
CountFrom(starts, width, p) ==
  LET left == {q \in starts : q >= p}
  IN  IF left = {} THEN 0 ELSE 1 + CountFrom(starts, width, Least(left) + width)

\* str.count(sub) from position p: occurrences that do not overlap
CountOccurrences(s, sub, p) ==
  CountFrom({q \in p..Len(s) : StartsAt(s, sub, q)}, Len(sub), p)

\* the lines of s, split at "\n": what ^ and $ delimit under re.MULTILINE
RECURSIVE SplitLines(_)
SplitLines(s) ==
  LET n == RunLengthExcept(s, 1, "\n")
  IN  IF n = Len(s) THEN <<s>>
      ELSE <<SubSeq(s, 1, n)>> \o SplitLines(SubSeq(s, n + 2, Len(s)))

\* a filter that uses the extractor's vocabulary instead of the three words
IsErrorPatternLine_Vocabulary(line) == IsErrorLine(line)

\* ^.*error.*$|^.*exception.*$|^.*fail.*$ with re.IGNORECASE on one line
IsErrorPatternLine(line) ==
  LET low == Lower(line)
  IN  \/ Contains(low, WORD_ERROR)
      \/ Contains(low, WORD_EXCEPTION)
      \/ Contains(low, WORD_FAIL)

\* re.findall(error_line_pattern, log_text, re.IGNORECASE | re.MULTILINE)
FindErrorPatternLines(s) ==
  SelectSeq(SplitLines(s), IsErrorPatternLine)

UUID_TAG == <<"<","U","U","I","D",">">>
NUM_TAG == <<"<","N","U","M",">">>
STRING_TAG == <<"<","S","T","R","I","N","G",">">>

\* [0-9a-f]{8}[-0-9a-f]{4}[-0-9a-f]{4}[-0-9a-f]{4}[-0-9a-f]{12} at position p
UuidAt(s, p) ==
  /\ p + 31 <= Len(s)
  /\ \A k \in 0..7 : s[p + k] \in Hex
  /\ \A k \in 8..31 : s[p + k] \in HexOrDash

\* re.sub of the UUID pattern by '<UUID>' from position p (line 220)
RECURSIVE SubUuid(_, _)
SubUuid(s, p) ==
  LET starts == {q \in p..Len(s) : UuidAt(s, q)}
  IN  IF starts = {} THEN SubSeq(s, p, Len(s))
      ELSE LET q == Least(starts)
           IN  SubSeq(s, p, q - 1) \o UUID_TAG \o SubUuid(s, q + 32)

\* \b\d+\b at position p: the length of the digits matched, or 0
NumAt(s, p) ==
  LET d == RunLength(s, p, Digits)
  IN  IF /\ d > 0
         /\ (p = 1 \/ s[p - 1] \notin WordChars)
         /\ (p + d > Len(s) \/ s[p + d] \notin WordChars)
        THEN d ELSE 0

\* re.sub(r'\b\d+\b', '<NUM>', ...) from position p (line 221)
RECURSIVE SubNum(_, _)
SubNum(s, p) ==
  LET starts == {q \in p..Len(s) : NumAt(s, q) > 0}
  IN  IF starts = {} THEN SubSeq(s, p, Len(s))
      ELSE LET q == Least(starts)
           IN  SubSeq(s, p, q - 1) \o NUM_TAG \o SubNum(s, q + NumAt(s, q))

\* \"[^\"]+\" at position p: the length of the match, quotes included, or 0
StringAt(s, p) ==
  IF p > Len(s) \/ s[p] # "\"" THEN 0
  ELSE LET inner == RunLengthExcept(s, p + 1, "\"")
       IN  IF inner > 0 /\ p + 1 + inner <= Len(s) THEN inner + 2 ELSE 0

\* re.sub(r'\"[^\"]+\"', '<STRING>', ...) from position p (line 222)
RECURSIVE SubString(_, _)
SubString(s, p) ==
  LET starts == {q \in p..Len(s) : StringAt(s, q) > 0}
  IN  IF starts = {} THEN SubSeq(s, p, Len(s))
      ELSE LET q == Least(starts)
           IN  SubSeq(s, p, q - 1) \o STRING_TAG \o SubString(s, q + StringAt(s, q))

\* lines 220-222: the three substitutions, in this order
Simplify(line) == SubString(SubNum(SubUuid(line, 1), 1), 1)

(***************************************************************************)
(* Python dicts keep insertion order: a dict is a sequence of <<key, n>>   *)
(***************************************************************************)
DictKeys(d) == {d[k][1] : k \in 1..Len(d)}

\* d[key] += 1 if key in d else d[key] = 1 (lines 194-197, 203-206, 224-227)
Increment(d, key) ==
  IF key \in DictKeys(d)
    THEN [k \in 1..Len(d) |-> IF d[k][1] = key THEN <<key, d[k][2] + 1>> ELSE d[k]]
    ELSE Append(d, <<key, 1>>)

\* the tally of a list of keys
RECURSIVE Tally(_, _)
Tally(d, keys) ==
  IF keys = <<>> THEN d ELSE Tally(Increment(d, Head(keys)), Tail(keys))

\* an insertion that puts an item before the items of equal count
InsertByCount_Unstable(sorted, item) ==
  LET before == SelectSeq(sorted, LAMBDA x : x[2] > item[2])
      after == SelectSeq(sorted, LAMBDA x : x[2] <= item[2])
  IN  before \o <<item>> \o after

\* one item put into a list sorted by descending count, after the items of
\* equal count: sorted() is stable, also with reverse=True
InsertByCount(sorted, item) ==
  LET before == SelectSeq(sorted, LAMBDA x : x[2] >= item[2])
      after == SelectSeq(sorted, LAMBDA x : x[2] < item[2])
  IN  before \o <<item>> \o after

\* sorted(items, key=lambda x: x[1], reverse=True) (lines 230-233)
RECURSIVE SortedByCount(_, _)
SortedByCount(sorted, items) ==
  IF items = <<>> THEN sorted
  ELSE SortedByCount(InsertByCount(sorted, Head(items)), Tail(items))

\* the slice [:10] of line 234
TOP_N == 10

\* a slice that keeps the last 10 items instead of the first 10
TopSlice_Last(items) ==
  SubSeq(items, Max(1, Len(items) - TOP_N + 1), Len(items))

\* items[:10]
TopSlice(items) == SubSeq(items, 1, Min(TOP_N, Len(items)))

(***************************************************************************)
(* extract_error_patterns: the texts it is given, and its steps            *)
(***************************************************************************)
MaxTextLines == 2   \* longest text made of arbitrary lines of the pool
MaxBulkOver == 1    \* how far the distinct error lines exceed the top 10
MaxRepeats == 2     \* most repeated lines at the end of a long text

\* lines a text is made of: with and without "error", "warning", "exception",
\* "fail", "code"; with numbers, quoted strings and a UUID
PoolLines ==
  << <<"U","s","e","r","E","r","r","o","r",":"," ","b","a","d"," ","i","d"," ",
       "4","2"," ","a","t"," ","\"","r","e","q","-","1","\"">>,
     <<"U","s","e","r","E","r","r","o","r",":"," ","b","a","d"," ","i","d"," ",
       "4","3"," ","a","t"," ","\"","r","e","q","-","2","\"">>,
     <<"I","O","E","x","c","e","p","t","i","o","n",":"," ","x">>,
     <<"b","u","i","l","d"," ","f","a","i","l","e","d">>,
     <<"c","o","d","e",":"," ","E","4","2">>,
     <<"w","a","r","n","i","n","g",":"," ","l","o","w">>,
     <<"a","l","l"," ","g","o","o","d">>,
     <<"t","i","m","e","o","u","t"," ","5">>,
     <<"E","r","r","o","r"," ","c","o","d","e","=","A","-","1">>,
     <<"f","a","i","l"," ","5","5","0","e","8","4","0","0","-","e","2","9","b",
       "-","4","1","d","4","-","a","7","1","6","-","4","4","6","6","5","5","4",
       "4","0","0","0","0">> >>

Letters ==
  <<"a","b","c","d","e","f","g","h","i","j","k","l","m",
    "n","o","p","q","r","s","t","u","v","w","x","y","z">>

\* the k-th of a family of pairwise distinct error lines: "fail a", "fail b", ...
BulkLine(k) == <<"f","a","i","l"," ">> \o <<Letters[k]>>

\* n distinct error lines, in ascending or in descending order
Bulk(n, ascending) ==
  [k \in 1..n |-> IF ascending THEN BulkLine(k) ELSE BulkLine(n + 1 - k)]

\* the sequences of at most n elements of S
RECURSIVE SeqsUpTo(_, _)
SeqsUpTo(S, n) ==
  IF n = 0 THEN {<<>>}
  ELSE LET shorter == SeqsUpTo(S, n - 1)
       IN  shorter \cup {Append(q, x) : q \in shorter, x \in S}

PoolSet == {PoolLines[k] : k \in 1..Len(PoolLines)}

\* texts of a few lines of the pool, and texts with more than 10 distinct
\* error lines, the first and the last of them repeated at the end
ShortTexts == {Join(<<"\n">>, ls) : ls \in SeqsUpTo(PoolSet, MaxTextLines)}

LongTextsOf(n) ==
  { Join(<<"\n">>, pre \o Bulk(n, asc) \o rep) :
      pre \in SeqsUpTo(PoolSet, 1),
      asc \in BOOLEAN,
      rep \in SeqsUpTo({BulkLine(1), BulkLine(n)}, MaxRepeats) }

LongTexts == UNION {LongTextsOf(n) : n \in TOP_N..(TOP_N + MaxBulkOver)}

\* the extractor is not running while the summarizer runs
ExtractorIdle ==
  /\ log_file = <<>>
  /\ file_exists = FALSE
  /\ file_size = 0
  /\ context_lines = 0
  /\ max_errors = 1
  /\ pc = "idle"
  /\ open_files = 0
  /\ line_count = 0
  /\ lines = <<>>
  /\ error_line_indices = {}
  /\ todo = <<>>
  /\ processed_indices = {}
  /\ extracted_sections = <<>>
  /\ section_bounds = <<>>
  /\ outcome = "running"
  /\ exception = "none"
  /\ result = <<>>

\* lines 182-188: the empty error_stats
InitPatterns ==
  /\ text \in ShortTexts \cup LongTexts
  /\ ppc = "exceptions"
  /\ error_stats = [common_errors |-> <<>>, error_count |-> 0,
                    warning_count |-> 0, exception_types |-> <<>>,
                    error_codes |-> <<>>]
  /\ error_lines = <<>>
  /\ simplified_errors = <<>>
  /\ ExtractorIdle
  /\ ClassifierIdle

\* lines 191-197: the exception types and their tally
TallyExceptions ==
  /\ ppc = "exceptions"
  /\ error_stats' =
       [error_stats EXCEPT !.exception_types = Tally(<<>>, FindExceptions(text, 1))]
  /\ ppc' = "codes"
  /\ UNCHANGED << text, error_lines, simplified_errors, evars, cvars >>

\* lines 200-206: the error codes and their tally
TallyErrorCodes ==
  /\ ppc = "codes"
  /\ error_stats' =
       [error_stats EXCEPT !.error_codes = Tally(<<>>, FindErrorCodes(text, 1))]
  /\ ppc' = "counts"
  /\ UNCHANGED << text, error_lines, simplified_errors, evars, cvars >>

\* lines 209-214: the two substring counts, then the error lines
CountAndFindLines ==
  /\ ppc = "counts"
  /\ error_stats' =
       [error_stats EXCEPT
          !.error_count = CountOccurrences(Lower(text), WORD_ERROR, 1),
          !.warning_count = CountOccurrences(Lower(text), WORD_WARNING, 1)]
  /\ error_lines' = FindErrorPatternLines(text)
  /\ ppc' = "simplify"
  /\ UNCHANGED << text, simplified_errors, evars, cvars >>

\* lines 218-227: one round of the loop over error_lines
SimplifyLine ==
  /\ ppc = "simplify"
  /\ error_lines # <<>>
  /\ simplified_errors' = Increment(simplified_errors, Simplify(Head(error_lines)))
  /\ error_lines' = Tail(error_lines)
  /\ UNCHANGED << text, ppc, error_stats, evars, cvars >>

\* lines 230-236: the ten most frequent, and the return
ReturnStats ==
  /\ ppc = "simplify"
  /\ error_lines = <<>>
  /\ error_stats' =
       [error_stats EXCEPT
          !.common_errors = TopSlice(SortedByCount(<<>>, simplified_errors))]
  /\ ppc' = "done"
  /\ UNCHANGED << text, error_lines, simplified_errors, evars, cvars >>

NextPatterns ==
  \/ TallyExceptions
  \/ TallyErrorCodes
  \/ CountAndFindLines
  \/ SimplifyLine
  \/ ReturnStats

SpecPatterns == InitPatterns /\ [][NextPatterns]_vars

(***************************************************************************)
(* ErrorClassifier.classify_error (src/src/utils.py)                       *)
(***************************************************************************)
\* the keys of ErrorClassifier.ERROR_PATTERNS, in the order of the dict
CATEGORY_NAMES ==
  << "kubernetes", "docker", "ci_cd", "terraform", "cloud", "networking" >>

\* ErrorClassifier.ERROR_PATTERNS: per category its patterns in order, each
\* pattern <<the alternatives of its first literal, the literal after .*>>,
\* the second <<>> when the pattern is one literal
ERROR_PATTERNS ==
  <<
    \* kubernetes
    <<
       << {<<"k","u","b","e","c","t","l">>},
          <<"e","r","r","o","r">> >>,
       << {<<"E","r","r","o","r"," ","f","r","o","m"," ","s","e","r","v","e","r"," ","(">>},
          <<")">> >>,
       << {<<"p","o","d">>},
          <<"n","o","t"," ","f","o","u","n","d">> >>,
       << {<<"d","e","p","l","o","y","m","e","n","t">>},
          <<"f","a","i","l","e","d">> >>,
       << {<<"C","r","a","s","h","L","o","o","p","B","a","c","k","O","f","f">>},
          <<>> >>,
       << {<<"I","m","a","g","e","P","u","l","l","B","a","c","k","O","f","f">>},
          <<>> >>
    >>,
    \* docker
    <<
       << {<<"d","o","c","k","e","r">>},
          <<"e","r","r","o","r">> >>,
       << {<<"E","r","r","o","r"," ","r","e","s","p","o","n","s","e"," ","f","r","o","m"," ","d","a","e","m","o","n">>},
          <<>> >>,
       << {<<"i","m","a","g","e">>},
          <<"n","o","t"," ","f","o","u","n","d">> >>,
       << {<<"c","o","n","t","a","i","n","e","r">>},
          <<"e","x","i","t","e","d">> >>,
       << {<<"p","e","r","m","i","s","s","i","o","n"," ","d","e","n","i","e","d">>},
          <<"d","o","c","k","e","r">> >>
    >>,
    \* ci_cd
    <<
       << {<<"p","i","p","e","l","i","n","e">>},
          <<"f","a","i","l","e","d">> >>,
       << {<<"b","u","i","l","d">>},
          <<"e","r","r","o","r">> >>,
       << {<<"j","e","n","k","i","n","s">>, <<"g","i","t","h","u","b"," ","a","c","t","i","o","n","s">>, <<"g","i","t","l","a","b"," ","c","i">>, <<"a","z","u","r","e"," ","d","e","v","o","p","s">>},
          <<"f","a","i","l","e","d">> >>,
       << {<<"w","o","r","k","f","l","o","w">>},
          <<"e","r","r","o","r">> >>
    >>,
    \* terraform
    <<
       << {<<"t","e","r","r","a","f","o","r","m">>},
          <<"e","r","r","o","r">> >>,
       << {<<"E","r","r","o","r"," ","a","p","p","l","y","i","n","g"," ","p","l","a","n">>},
          <<>> >>,
       << {<<"p","r","o","v","i","d","e","r">>},
          <<"e","r","r","o","r">> >>,
       << {<<"r","e","s","o","u","r","c","e">>},
          <<"a","l","r","e","a","d","y"," ","e","x","i","s","t","s">> >>
    >>,
    \* cloud
    <<
       << {<<"a","w","s">>},
          <<"e","r","r","o","r">> >>,
       << {<<"a","z","u","r","e">>},
          <<"e","r","r","o","r">> >>,
       << {<<"g","c","p">>},
          <<"e","r","r","o","r">> >>,
       << {<<"c","l","o","u","d">>},
          <<"p","e","r","m","i","s","s","i","o","n"," ","d","e","n","i","e","d">> >>,
       << {<<"a","c","c","e","s","s"," ","d","e","n","i","e","d">>},
          <<>> >>,
       << {<<"i","n","s","u","f","f","i","c","i","e","n","t"," ","p","e","r","m","i","s","s","i","o","n","s">>},
          <<>> >>
    >>,
    \* networking
    <<
       << {<<"c","o","n","n","e","c","t","i","o","n">>},
          <<"r","e","f","u","s","e","d">> >>,
       << {<<"t","i","m","e","o","u","t">>},
          <<>> >>,
       << {<<"n","e","t","w","o","r","k">>},
          <<"u","n","r","e","a","c","h","a","b","l","e">> >>,
       << {<<"d","n","s">>},
          <<"e","r","r","o","r">> >>,
       << {<<"n","o"," ","r","o","u","t","e"," ","t","o"," ","h","o","s","t">>},
          <<>> >>
    >>
  >>

\* re.search(pattern, error_text, re.IGNORECASE): the first literal somewhere,
\* and for "first.*second" the second literal behind it with no line break
\* in between ("." does not match "\n")
PatternMatches(s, pattern) ==
  \E first \in pattern[1] :
    \E p \in 1..Len(s) :
      /\ StartsAtIgnoringCase(s, Lower(first), p)
      /\ \/ pattern[2] = <<>>
         \/ \E q \in (p + Len(first))..Len(s) :
              /\ StartsAtIgnoringCase(s, Lower(pattern[2]), q)
              /\ \A k \in (p + Len(first))..(q - 1) : s[k] # "\n"

\* a break that leaves both loops, as of a return on the first match
NextCategoryAfterMatch_Return(c) == Len(CATEGORY_NAMES) + 1

\* line 72: break leaves the loop over the patterns only, the loop over the
\* categories goes on with the next category
NextCategoryAfterMatch(c) == c + 1

\* the orders in which list(set(...)) can give the elements of S
RECURSIVE Orders(_)
Orders(S) ==
  IF S = {} THEN {<<>>}
  ELSE UNION { {<<x>> \o q : q \in Orders(S \ {x})} : x \in S }

MaxClassifyLines == 2   \* longest error_text, in lines of the pool

\* lines an error_text is made of
ClassifyLines ==
  { <<"I","m","a","g","e","P","u","l","l","B","a","c","k","O","f","f">>,
    <<"k","u","b","e","c","t","l"," ","a","p","p","l","y">>,
    <<"E","r","r","o","r",":"," ","x">>,
    <<"d","o","c","k","e","r"," ","b","u","i","l","d">>,
    <<"J","e","n","k","i","n","s"," ","j","o","b"," ","F","A","I","L","E","D">>,
    <<"a","c","c","e","s","s"," ","d","e","n","i","e","d">>,
    <<"T","i","m","e","o","u","t">>,
    <<"a","l","l"," ","g","o","o","d">>,
    <<"E","r","r","o","r"," ","f","r","o","m"," ","s","e","r","v","e","r"," ",
      "(","N","o","t","F","o","u","n","d",")">> }

\* the texts: lines of the pool, joined by line breaks or by blanks
ClassifyTexts ==
  { Join(sep, ls) :
      sep \in {<<"\n">>, <<" ">>},
      ls \in SeqsUpTo(ClassifyLines, MaxClassifyLines) }

InitClassify ==
  /\ error_text \in ClassifyTexts
  /\ cpc = "start"
  /\ categories = <<>>
  /\ cat_idx = 0
  /\ pat_idx = 0
  /\ classified = <<>>
  /\ ExtractorIdle
  /\ PatternsIdle

\* lines 64-65: if not error_text: return []
ReturnEmptyList ==
  /\ cpc = "start"
  /\ error_text = <<>>
  /\ classified' = <<>>
  /\ cpc' = "done"
  /\ UNCHANGED << error_text, categories, cat_idx, pat_idx, evars, pvars >>

\* lines 67-69: categories = [], and the first pattern of the first category
StartLoops ==
  /\ cpc = "start"
  /\ error_text # <<>>
  /\ categories' = <<>>
  /\ cat_idx' = 1
  /\ pat_idx' = 1
  /\ cpc' = "test"
  /\ UNCHANGED << error_text, classified, evars, pvars >>

\* lines 70-72: the pattern matches: append the category and break
PatternMatched ==
  /\ cpc = "test"
  /\ cat_idx <= Len(CATEGORY_NAMES)
  /\ pat_idx <= Len(ERROR_PATTERNS[cat_idx])
  /\ PatternMatches(error_text, ERROR_PATTERNS[cat_idx][pat_idx])
  /\ categories' = Append(categories, CATEGORY_NAMES[cat_idx])
  /\ cat_idx' = NextCategoryAfterMatch(cat_idx)
  /\ pat_idx' = 1
  /\ UNCHANGED << error_text, cpc, classified, evars, pvars >>

\* lines 69-70: the pattern does not match: the next pattern
PatternMissed ==
  /\ cpc = "test"
  /\ cat_idx <= Len(CATEGORY_NAMES)
  /\ pat_idx <= Len(ERROR_PATTERNS[cat_idx])
  /\ ~PatternMatches(error_text, ERROR_PATTERNS[cat_idx][pat_idx])
  /\ pat_idx' = pat_idx + 1
  /\ UNCHANGED << error_text, cpc, categories, cat_idx, classified, evars, pvars >>

\* lines 68-69: no pattern of the category is left: the next category
PatternsExhausted ==
  /\ cpc = "test"
  /\ cat_idx <= Len(CATEGORY_NAMES)
  /\ pat_idx > Len(ERROR_PATTERNS[cat_idx])
  /\ cat_idx' = cat_idx + 1
  /\ pat_idx' = 1
  /\ UNCHANGED << error_text, cpc, categories, classified, evars, pvars >>

\* line 74: return list(set(categories)), in whatever order the set gives
ReturnCategories ==
  /\ cpc = "test"
  /\ cat_idx > Len(CATEGORY_NAMES)
  /\ classified' \in Orders({categories[k] : k \in 1..Len(categories)})
  /\ cpc' = "done"
  /\ UNCHANGED << error_text, categories, cat_idx, pat_idx, evars, pvars >>

NextClassify ==
  \/ ReturnEmptyList
  \/ StartLoops
  \/ PatternMatched
  \/ PatternMissed
  \/ PatternsExhausted
  \/ ReturnCategories

SpecClassify == InitClassify /\ [][NextClassify]_vars

(***************************************************************************)
(* Properties of extract_error_sections                                    *)
(***************************************************************************)
\* the method returned normally
Returned == pc = "done" /\ outcome = "returned"

\* the file went down the large-file path and the method returned
Windowed == Returned /\ file_size * 10 >= 2 * (1024 * 1024)

\* the number of lines of every emitted window, added up
RECURSIVE EmittedLines(_)
EmittedLines(bs) ==
  IF bs = <<>> THEN 0 ELSE (Head(bs)[2] - Head(bs)[1] + 1) + EmittedLines(Tail(bs))

\* the line contains the keyword when the case of both is ignored
ContainsIgnoringCase(line, keyword) == Contains(Lower(line), Lower(keyword))

\* the zero-based indices of the lines that contain some vocabulary entry,
\* case ignored
VocabularyMatches(ls) ==
  { i \in 0..(Len(ls) - 1) :
      \E k \in 1..Len(ERROR_KEYWORDS) :
        ContainsIgnoringCase(ls[i + 1], ERROR_KEYWORDS[k]) }

\* C1: matches at lines 5 and 6 only, radius 2, no clipping: the result holds
\* exactly one window and it covers lines 3 through 8.
C1_OverlapCollapse ==
  (Windowed /\ error_line_indices = {5, 6} /\ context_lines = 2
     /\ Len(lines) >= 9)
  => /\ Len(section_bounds) = 1
     /\ section_bounds[1][1] = 3
     /\ section_bounds[1][2] = 8
     /\ result = BANNER \o Concat(SubSeq(lines, 4, 9))

\* what the code emits in the case of C1: one window, lines 3 through 7
C1_CodeEmitsThreeToSeven ==
  (Windowed /\ error_line_indices = {5, 6} /\ context_lines = 2
     /\ Len(lines) >= 9)
  => /\ Len(section_bounds) = 1
     /\ section_bounds[1][1] = 3
     /\ section_bounds[1][2] = 7
     /\ result = BANNER \o Concat(SubSeq(lines, 4, 8))

\* C2: no line index lies in two emitted windows: a later window starts after
\* the end of every earlier one.
C2_NoLineEmittedTwice ==
  \A a, b \in 1..Len(section_bounds) :
    a < b => section_bounds[b][1] > section_bounds[a][2]

\* C3 as stated: more matching lines than max_errors give exactly max_errors
\* windows.
C3_ExactlyCapWindows ==
  (Windowed /\ Cardinality(error_line_indices) > max_errors)
  => Len(extracted_sections) = max_errors

\* the matching lines are pairwise more than the radius apart
FarApart(S, radius) == \A i, j \in S : i < j => j - i > radius

\* C3 amended: more matching lines than max_errors give at least one and at
\* most max_errors windows, and exactly max_errors when the matching lines are
\* pairwise more than context_lines apart.
C3_AtMostCapWindows ==
  (Windowed /\ Cardinality(error_line_indices) > max_errors)
  => /\ Len(extracted_sections) >= 1
     /\ Len(extracted_sections) <= max_errors
     /\ FarApart(error_line_indices, context_lines)
          => Len(extracted_sections) = max_errors

\* C3 witness: more matches than the cap, and fewer windows than the cap
C3_Witness ==
  /\ Windowed
  /\ Cardinality(error_line_indices) > max_errors
  /\ Len(extracted_sections) < max_errors

\* C4: the lines emitted across all windows are no more than the lines of the
\* file and no more than max_errors * (2 * context_lines + 1).
C4_SizeEnvelope ==
  Windowed
  => /\ EmittedLines(section_bounds) <= Len(lines)
     /\ EmittedLines(section_bounds) <= max_errors * (2 * context_lines + 1)

\* the half of C4 that the code keeps: the bound by the cap and the radius
C4_CapEnvelope ==
  EmittedLines(section_bounds) <= max_errors * (2 * context_lines + 1)

\* C5: once the scan is done, the match index set is exactly the set of lines
\* that contain a vocabulary entry, case ignored.
C5_CaseInsensitiveMatch ==
  pc \in {"loop", "join"} => error_line_indices = VocabularyMatches(lines)

\* the half of C5 that the code keeps: a matched line contains a keyword
C5_OnlyKeywordLines ==
  pc \in {"loop", "join"} => error_line_indices \subseteq VocabularyMatches(lines)

\* no two context windows of matching lines overlap
NoOverlap(S, radius, n) ==
  \A i, j \in S : i < j => Min(n - 1, i + radius) < Max(0, j - radius)

\* C6: N matching lines with pairwise disjoint context windows, N <= max_errors:
\* exactly N windows, the k-th around the k-th match in ascending order, of
\* min(i + r, last) - max(0, i - r) + 1 lines.
C6_NonOverlapping ==
  (Windowed /\ NoOverlap(error_line_indices, context_lines, Len(lines))
     /\ Cardinality(error_line_indices) <= max_errors)
  => LET matches == SortedSeq(error_line_indices)
         last == Len(lines) - 1
     IN  /\ Len(section_bounds) = Len(matches)
         /\ Len(extracted_sections) = Len(matches)
         /\ \A k \in 1..Len(matches) :
              LET i == matches[k]
                  lo == IF i - context_lines < 0 THEN 0 ELSE i - context_lines
                  hi == IF i + context_lines > last THEN last ELSE i + context_lines
              IN  /\ section_bounds[k] = <<lo, hi, i>>
                  /\ extracted_sections[k] = Concat(SubSeq(lines, lo + 1, hi + 1))
                  /\ Len(SubSeq(lines, lo + 1, hi + 1)) =
                       Min(i + context_lines, last) - Max(0, i - context_lines) + 1
         /\ \A k \in 1..(Len(matches) - 1) :
              section_bounds[k][2] < section_bounds[k + 1][1]

\* C6 witness: two disjoint windows, the first clipped at the top of the file
C6_Witness ==
  /\ Windowed
  /\ NoOverlap(error_line_indices, context_lines, Len(lines))
  /\ Cardinality(error_line_indices) = 2
  /\ max_errors >= 2
  /\ context_lines = 2
  /\ 1 \in error_line_indices
  /\ Len(section_bounds) = 2

\* C7: a file below the size threshold is returned whole and unmodified,
\* whatever matches and whatever context_lines and max_errors are.
C7_SmallFilePassthrough ==
  (Returned /\ file_size * 10 < 2 * (1024 * 1024))
  => result = Concat(log_file)

\* C7 witness: a small file with matching lines was returned
C7_Witness ==
  /\ Returned
  /\ file_size * 10 < 2 * (1024 * 1024)
  /\ Cardinality(VocabularyMatches(log_file)) >= 2
  /\ max_errors = 1
  /\ result # <<>>

\* C8: a file at or above the threshold without any vocabulary match returns
\* its first min(100, total) lines, then the continuation marker, nothing else.
C8_ZeroMatchFallback ==
  (Windowed /\ VocabularyMatches(log_file) = {})
  => LET n == IF Len(log_file) < 100 THEN Len(log_file) ELSE 100
     IN  /\ result = Concat(SubSeq(log_file, 1, n)) \o CONTINUATION
         /\ ~Contains(result, BANNER)

\* C8 witness: such a file of more than 100 lines was sampled
C8_Witness ==
  /\ Windowed
  /\ VocabularyMatches(log_file) = {}
  /\ Len(log_file) > 100
  /\ result # <<>>

\* C13: the number of emitted windows never exceeds max_errors, at any point
\* of the loop or in the result, and once max_errors windows are emitted no
\* further index is processed: the sections, the processed indices and the
\* remaining indices stay as they are while the method goes on to return.
C13_CapUpperBound ==
  /\ [](Len(extracted_sections) <= max_errors)
  /\ [][Len(extracted_sections) >= max_errors
          => /\ extracted_sections' = extracted_sections
             /\ section_bounds' = section_bounds
             /\ processed_indices' = processed_indices
             /\ todo' = todo
             /\ pc' \in {"join", "done"}
             /\ outcome' \in {"running", "returned"}]_vars

\* C13 witness: the method returned with the cap reached while a matching
\* line outside every window was still waiting
C13_Witness ==
  /\ Windowed
  /\ Len(extracted_sections) = max_errors
  /\ \E k \in 2..Len(todo) : todo[k] \notin processed_indices
  /\ result = BANNER \o Join(SEPARATOR, extracted_sections)

\* C14: every emitted window lies within the file and contains the matching
\* index it was made for; when the method returns with fewer than max_errors
\* windows, every index of the match index set lies inside some window.
C14_MatchCoverage ==
  /\ \A k \in 1..Len(section_bounds) :
       /\ 0 <= section_bounds[k][1]
       /\ section_bounds[k][1] <= section_bounds[k][3]
       /\ section_bounds[k][3] <= section_bounds[k][2]
       /\ section_bounds[k][2] <= Len(lines) - 1
       /\ section_bounds[k][3] \in error_line_indices
  /\ (Windowed /\ Len(section_bounds) < max_errors)
       => \A i \in error_line_indices :
            \E k \in 1..Len(section_bounds) :
              section_bounds[k][1] <= i /\ i <= section_bounds[k][2]

\* C14 witness: fewer windows than the cap, and a matching line that got no
\* window of its own
C14_Witness ==
  /\ Windowed
  /\ Len(section_bounds) < max_errors
  /\ Len(section_bounds) >= 1
  /\ Cardinality(error_line_indices) > Len(section_bounds)

\* C12: a path that does not exist ends in FileNotFoundError, raised to the
\* caller as it is; whenever the method raises it returns nothing, neither a
\* partial nor an empty extraction, and a failure never ends in a return; no
\* file handle is open once the method has ended, whichever way.
C12_ErrorPropagation ==
  /\ (pc = "done" /\ ~file_exists)
       => (outcome = "raised" /\ exception = "FileNotFoundError")
  /\ outcome = "raised"
       => (pc = "done" /\ exception # "none" /\ result = <<>>)
  /\ exception # "none" => outcome = "raised"
  /\ outcome = "returned" => (pc = "done" /\ exception = "none")
  /\ pc = "done" => (open_files = 0 /\ outcome # "running")
  /\ open_files \in {0, 1}

\* C12 witness: a read failed after the first pass had counted the lines
C12_Witness ==
  /\ pc = "done"
  /\ outcome = "raised"
  /\ exception = "OSError"
  /\ line_count > 0
  /\ open_files = 0

(***************************************************************************)
(* Properties of extract_error_patterns                                    *)
(***************************************************************************)
\* the summarizer returned
PatternsDone == ppc = "done"

\* the text contains the lower-case word, case ignored
TextContains(word) == Contains(Lower(text), word)

\* every mapping of error_stats is empty and both counts are 0
StatsAllEmpty ==
  /\ error_stats.error_count = 0
  /\ error_stats.warning_count = 0
  /\ error_stats.exception_types = <<>>
  /\ error_stats.error_codes = <<>>
  /\ error_stats.common_errors = <<>>

\* C9 as stated: a text with neither "error" nor "warning" gives two counts of
\* 0 and three empty mappings.
C9_NoErrorNoWarning ==
  (PatternsDone /\ ~TextContains(WORD_ERROR) /\ ~TextContains(WORD_WARNING))
  => StatsAllEmpty

\* C9 amended: a text with neither "error" nor "warning" gives two counts of 0;
\* the three mappings are empty as well when the text contains none of
\* "exception", "fail" and "code" either (case ignored throughout).
C9_NoErrorWords ==
  (PatternsDone /\ ~TextContains(WORD_ERROR) /\ ~TextContains(WORD_WARNING))
  => /\ error_stats.error_count = 0
     /\ error_stats.warning_count = 0
     /\ (~TextContains(WORD_EXCEPTION) /\ ~TextContains(WORD_FAIL)
           /\ ~TextContains(WORD_CODE))
          => StatsAllEmpty

\* C9 witness: a text of several lines without any of the five words
C9_Witness ==
  /\ PatternsDone
  /\ Contains(text, <<"\n">>)
  /\ Contains(text, <<"t","i","m","e","o","u","t">>)
  /\ ~TextContains(WORD_ERROR) /\ ~TextContains(WORD_WARNING)
  /\ ~TextContains(WORD_EXCEPTION) /\ ~TextContains(WORD_FAIL)
  /\ ~TextContains(WORD_CODE)

\* the normalized error lines of the text, in the order of the text
NormalizedLines ==
  LET found == FindErrorPatternLines(text)
  IN  [k \in 1..Len(found) |-> Simplify(found[k])]

\* how often a normalized line occurs, and where it occurs first
CountOf(key, ns) == Cardinality({k \in 1..Len(ns) : ns[k] = key})
FirstSeen(key, ns) == CHOOSE k \in 1..Len(ns) : ns[k] = key /\ \A j \in 1..(k - 1) : ns[j] # key

\* the rank of a retained key in common_errors
RankOf(key, ce) == CHOOSE k \in 1..Len(ce) : ce[k][1] = key

\* C10: common_errors has at most 10 entries, each a normalized line with its
\* count; no dropped line is more frequent than a retained one; the entries
\* are in descending order of count; of two lines of equal count the one seen
\* first in the text is retained and ranked first.
C10_TopTen ==
  PatternsDone
  => LET ns == NormalizedLines
         all == {ns[k] : k \in 1..Len(ns)}
         ce == error_stats.common_errors
         kept == {ce[k][1] : k \in 1..Len(ce)}
     IN  /\ Len(ce) <= 10
         /\ Len(ce) = Min(10, Cardinality(all))
         /\ Cardinality(kept) = Len(ce)
         /\ kept \subseteq all
         /\ \A k \in 1..Len(ce) : ce[k][2] = CountOf(ce[k][1], ns)
         /\ \A x \in kept : \A y \in all \ kept : CountOf(x, ns) >= CountOf(y, ns)
         /\ \A k \in 1..(Len(ce) - 1) : ce[k][2] >= ce[k + 1][2]
         /\ \A x, y \in all :
              (CountOf(x, ns) = CountOf(y, ns) /\ FirstSeen(x, ns) < FirstSeen(y, ns)
                 /\ y \in kept)
              => (x \in kept /\ RankOf(x, ce) < RankOf(y, ce))

\* C10 witness: more than 10 distinct normalized lines, with a tie among the
\* retained ones and a tie across the cut
C10_Witness ==
  /\ PatternsDone
  /\ LET ns == NormalizedLines
         all == {ns[k] : k \in 1..Len(ns)}
         ce == error_stats.common_errors
     IN  /\ Cardinality(all) > 10
         /\ Len(ce) = 10
         /\ ce[1][2] = 2 /\ ce[2][2] = 2
         /\ ce[10][2] = 1

(***************************************************************************)
(* Properties of classify_error                                            *)
(***************************************************************************)
\* C11: the returned list has no duplicates; it contains a category exactly
\* when one of the patterns of that category matches the text, whatever the
\* other categories do; an empty text and a text that matches no pattern
\* give the empty list; the call never fails: it can always go on until it
\* returns.
C11_ClassifierResult ==
  /\ cpc = "done"
       => /\ \A a, b \in 1..Len(classified) : a # b => classified[a] # classified[b]
          /\ \A c \in 1..Len(CATEGORY_NAMES) :
               (\E k \in 1..Len(classified) : classified[k] = CATEGORY_NAMES[c])
               <=> (\E k \in 1..Len(ERROR_PATTERNS[c]) :
                      PatternMatches(error_text, ERROR_PATTERNS[c][k]))
          /\ \A k \in 1..Len(classified) :
               \E c \in 1..Len(CATEGORY_NAMES) : classified[k] = CATEGORY_NAMES[c]
          /\ error_text = <<>> => classified = <<>>
  /\ cpc \in {"start", "test"} => ENABLED NextClassify

\* C11 witness: a text with "ImagePullBackOff" classified as kubernetes and
\* as one more category
C11_Witness ==
  /\ cpc = "done"
  /\ Contains(error_text, <<"I","m","a","g","e","P","u","l","l">>)
  /\ Len(classified) = 2
  /\ \E k \in 1..2 : classified[k] = "kubernetes"
  /\ \E k \in 1..2 : classified[k] = "networking"
====
